---------------------------- MODULE Spec2Model ----------------------------
(***************************************************************************)
(* A model of xenking/websocket: the frame codec (frame.go) and the client *)
(* role (client.go).                                                       *)
(*                                                                         *)
(* Bytes are the integers 0..255.  A Go byte slice is modelled by two      *)
(* sequences: the bytes up to len() and the bytes of the backing array     *)
(* between len() and cap() ("spare"), so that re-slicing and append() can  *)
(* be modelled as Go performs them.  A uint64 is modelled by its 8         *)
(* big-endian base-256 digits, which keeps its full width.                 *)
(***************************************************************************)
EXTENDS Integers, Sequences, FiniteSets, TLC

VARIABLES
  fr,     \* the frame the holder works on
  hist    \* the operations the holder applied to fr since AcquireFrame, oldest
          \* first: [op, arg, before], before being the frame the operation met

frameVars == <<fr, hist>>

VARIABLES
  rx,     \* the frame ReadFrom decodes into
  wire,   \* the bytes between WriteTo's writer and ReadFrom's reader
  inp,    \* the inputs of the encode/decode run
  io,     \* what WriteTo and ReadFrom returned: [wn, werr, rn, rerr]
  pc      \* where the run stands

codecVars == <<rx, wire, inp, io, pc>>

VARIABLES
  conn,   \* the net.Conn: [open, data, end, deadline]; data are the bytes the
          \* peer sent and the client has not read, end what a Read returns
          \* once they are used up ("block": it waits for the peer)
  bw,     \* the bufio.Writer of Client.brw over conn, a writer as WriteTo
          \* takes it: out are the bytes handed to conn
  cl,     \* whether client() returned a Client
  pool,   \* the frames in framePool
  last,   \* the last call of the client API and what it returned
  nops    \* [client, server]: the calls made and the peer's sends so far

clientVars == <<conn, bw, cl, pool, last, nops>>

vars == <<frameVars, codecVars, clientVars>>

(***************************************************************************)
(* Bit operations on bytes.                                                *)
(***************************************************************************)
RECURSIVE BitAnd(_, _)
BitAnd(a, b) ==
  IF a = 0 \/ b = 0 THEN 0
  ELSE (a % 2) * (b % 2) + 2 * BitAnd(a \div 2, b \div 2)

RECURSIVE BitOr(_, _)
BitOr(a, b) ==
  IF a = 0 THEN b
  ELSE IF b = 0 THEN a
  ELSE (IF a % 2 = 1 \/ b % 2 = 1 THEN 1 ELSE 0) + 2 * BitOr(a \div 2, b \div 2)

RECURSIVE XorBits(_, _)
XorBits(a, b) ==
  IF a = 0 THEN b
  ELSE IF b = 0 THEN a
  ELSE ((a + b) % 2) + 2 * XorBits(a \div 2, b \div 2)

\* ^ on bytes, tabulated
XorTable == [a \in 0..255 |-> [b \in 0..255 |-> XorBits(a, b)]]

BitXor(a, b) == XorTable[a][b]

Zeros(n) == [i \in 1..n |-> 0]

Take(s, n) == SubSeq(s, 1, n)

Drop(s, n) == SubSeq(s, n + 1, Len(s))

(***************************************************************************)
(* uint64 values as 8 big-endian digits.                                   *)
(***************************************************************************)
NatToU64(n) ==
  <<0, 0, 0, 0, (n \div 16777216) % 256, (n \div 65536) % 256,
    (n \div 256) % 256, n % 256>>

U64Gt(a, b) ==
  \E i \in 1..8 : a[i] > b[i] /\ \A j \in 1..(i - 1) : a[j] = b[j]

U64IsZero(a) == \A i \in 1..8 : a[i] = 0

\* defined for values below 2^31 only
U64ToNat(a) == a[5] * 16777216 + a[6] * 65536 + a[7] * 256 + a[8]

U64Small(a) == (\A i \in 1..4 : a[i] = 0) /\ a[5] < 128

(***************************************************************************)
(* frame.go: constants                                                     *)
(***************************************************************************)
StatusNone == 1000

CodeContinuation == 0

CodeText == 1

CodeBinary == 2

CodeClose == 8

CodePing == 9

CodePong == 10

finBit == 128

maskBit == 128

maskSize == 4

opSize == 10

PoolCap == 128

\* 1 << 32
limitLen == <<0, 0, 0, 1, 0, 0, 0, 0>>

\* 1 << 20
DefaultPayloadSize == NatToU64(1048576)

(***************************************************************************)
(* Go slices: append() and re-slicing on (b, spare).                       *)
(***************************************************************************)
\* the capacity append() allocates when the backing array is too small
GrowCap(old, needed) ==
  IF needed > 2 * old THEN needed ELSE 2 * old

\* append(s, x...) where s has bytes b and spare capacity spare
GoAppend(b, spare, x) ==
  IF Len(x) <= Len(spare)
  THEN [b |-> b \o x, spare |-> Drop(spare, Len(x))]
  ELSE [b |-> b \o x,
        spare |-> Zeros(GrowCap(Len(b) + Len(spare), Len(b) + Len(x))
                          - (Len(b) + Len(x)))]

\* s[:n] for n <= cap(s)
Reslice(b, spare, n) ==
  [b |-> Take(b \o spare, n), spare |-> Drop(b \o spare, n)]

Cap(f) == Len(f.b) + Len(f.spare)

(***************************************************************************)
(* frame.go: Frame                                                         *)
(***************************************************************************)
\* framePool.New
NewFrame ==
  [max |-> DefaultPayloadSize, op |-> Zeros(opSize), mask |-> Zeros(maskSize),
   b |-> <<>>, spare |-> Zeros(PoolCap), statusDefined |-> FALSE]

resetPayload(f) ==
  [f EXCEPT !.b = <<>>, !.spare = f.b \o f.spare]

resetHeader(f) ==
  [f EXCEPT !.op = Zeros(opSize), !.mask = Zeros(maskSize),
            !.statusDefined = FALSE]

\* a slip of Reset: the mask key is left as it was
ResetKeepsMask(f) == [resetPayload(resetHeader(f)) EXCEPT !.mask = f.mask]

Reset(f) == resetPayload(resetHeader(f))

IsFin(f) == BitAnd(f.op[1], finBit) # 0

Code(f) == BitAnd(f.op[1], 15)

IsClose(f) == Code(f) = CodeClose

IsMasked(f) == BitAnd(f.op[2], maskBit) # 0

\* Frame.Len: the length the header declares, as a uint64
FrameLen(f) ==
  LET length == BitAnd(f.op[2], 127)
  IN  CASE length = 126 -> <<0, 0, 0, 0, 0, 0, f.op[3], f.op[4]>>
        [] length = 127 -> SubSeq(f.op, 3, 10)
        [] OTHER -> <<0, 0, 0, 0, 0, 0, 0, length>>

MaskKey(f) == Take(f.mask, 4)

Payload(f) ==
  IF IsClose(f) /\ Len(f.b) # 0 THEN Drop(f.b, 2) ELSE f.b

\* fr.b[2:] panics unless 2 <= len(fr.b)
PayloadDefined(f) == ~(IsClose(f) /\ Len(f.b) # 0) \/ Len(f.b) >= 2

PayloadLen(f) == Len(f.b)

PayloadSize(f) == f.max

SetPayloadSize(f, size) == [f EXCEPT !.max = size]

SetFin(f) == [f EXCEPT !.op[1] = BitOr(f.op[1], finBit)]

\* a slip of SetCode: the opcode is or-ed over the old one, FIN is dropped
SetCodeDropsFin(f, code) ==
  [f EXCEPT !.op[1] = BitOr(BitAnd(f.op[1], 15), BitAnd(code, 15))]

SetCode(f, code) ==
  [f EXCEPT !.op[1] = BitOr(BitAnd(f.op[1], 240), BitAnd(code, 15))]

SetText(f) == SetCode(f, CodeText)

SetBinary(f) == SetCode(f, CodeBinary)

SetClose(f) == SetCode(f, CodeClose)

SetMask(f, key) ==
  [f EXCEPT !.op[2] = BitOr(f.op[2], maskBit), !.mask = Take(key, 4)]

UnsetMask(f) == [f EXCEPT !.op[2] = BitXor(f.op[2], maskBit)]

\* Frame.Write: append to the payload
FrWrite(f, p) ==
  LET a == GoAppend(f.b, f.spare, p)
  IN  [f EXCEPT !.b = a.b, !.spare = a.spare]

\* fr.b = append(fr.b[:n], b...)
SetPayloadAt(f, n, p) ==
  [f EXCEPT !.b = Take(f.b \o f.spare, n) \o p,
            !.spare = GoAppend(Take(f.b \o f.spare, n),
                               Drop(f.b \o f.spare, n), p).spare]

SetPayload(f, p) ==
  IF IsClose(f)
  THEN SetPayloadAt(IF Cap(f) < 2 THEN FrWrite(f, Zeros(2)) ELSE f, 2, p)
  ELSE SetPayloadAt(f, 0, p)

\* fr.CopyTo(fr2): max, op, mask and b are copied into fr2's own arrays;
\* statusDefined is not among the fields copied
CopyTo(f, f2) ==
  [SetPayloadAt(f2, 0, f.b) EXCEPT !.max = f.max, !.op = f.op,
                                   !.mask = f.mask]

\* a slip of setPayloadLen: the 16-bit form is chosen one byte late
setPayloadLenLate(f) ==
  IF Len(f.b) > 126 /\ Len(f.b) <= 65535
  THEN [fr |-> [f EXCEPT !.op = <<@[1], BitOr(@[2], 126),
                                  (Len(f.b) \div 256) % 256, Len(f.b) % 256>>
                                  \o Drop(@, 4)],
        s |-> 2]
  ELSE IF Len(f.b) > 65535
  THEN [fr |-> [f EXCEPT !.op = <<@[1], BitOr(@[2], 127)>>
                                  \o NatToU64(Len(f.b))],
        s |-> 8]
  ELSE [fr |-> [f EXCEPT !.op[2] = BitOr(@, Len(f.b))], s |-> 0]

setLength(f, n) == [f EXCEPT !.op[2] = BitOr(f.op[2], n % 256)]

\* the frame after setPayloadLen and the number s of extended length bytes
setPayloadLen(f) ==
  LET n == Len(f.b)
  IN  CASE n > 65535 ->
             [fr |-> [setLength(f, 127) EXCEPT
                        !.op = Take(@, 2) \o NatToU64(n)],
              s |-> 8]
        [] n > 125 /\ n <= 65535 ->
             [fr |-> [setLength(f, 126) EXCEPT
                        !.op = Take(@, 2) \o <<(n \div 256) % 256, n % 256>>
                                 \o Drop(@, 4)],
              s |-> 2]
        [] OTHER -> [fr |-> setLength(f, n), s |-> 0]

\* mask(): XOR b in place with the key cycled per byte
mask(key, b) == [i \in 1..Len(b) |-> BitXor(b[i], key[((i - 1) % 4) + 1])]

\* a slip of Mask: bit and key are set, the payload is left as it is
MaskNoEncode(f, key) ==
  [f EXCEPT !.op[2] = BitOr(f.op[2], maskBit), !.mask = key]

\* Frame.Mask; key is the key readMask draws
Mask(f, key) ==
  LET g == [f EXCEPT !.op[2] = BitOr(f.op[2], maskBit), !.mask = key]
  IN  IF Len(g.b) # 0 THEN [g EXCEPT !.b = mask(g.mask, g.b)] ELSE g

\* a slip of Unmask: the mask bit is dropped, the payload is left encoded
UnmaskNoDecode(f) == UnsetMask(f)

Unmask(f) ==
  UnsetMask(IF Len(f.b) # 0 THEN [f EXCEPT !.b = mask(MaskKey(f), f.b)] ELSE f)

Status(f) ==
  IF Len(f.b) < 2 THEN StatusNone ELSE f.b[1] * 256 + f.b[2]

\* binary.BigEndian.PutUint16(fr.b[:2], status): fr.b[:2] is a slice of the
\* backing array, whatever len(fr.b) is
PutStatus(f, status) ==
  [f EXCEPT
     !.b = Take(<<(status \div 256) % 256, status % 256>>
                  \o Drop(f.b \o f.spare, 2), Len(f.b)),
     !.spare = Drop(<<(status \div 256) % 256, status % 256>>
                      \o Drop(f.b \o f.spare, 2), Len(f.b)),
     !.statusDefined = TRUE]

\* fr.b = append(fr.b[:2], fr.b...)
ShiftStatus(f) ==
  [f EXCEPT !.b = Take(f.b \o f.spare, 2) \o f.b,
            !.spare = GoAppend(Take(f.b \o f.spare, 2),
                               Drop(f.b \o f.spare, 2), f.b).spare]

\* a slip of SetStatus: statusDefined is not consulted, every call shifts
SetStatusAlwaysShift(f, status) == PutStatus(ShiftStatus(f), status)

SetStatus(f, status) ==
  IF f.statusDefined THEN PutStatus(f, status)
  ELSE PutStatus(ShiftStatus(IF Cap(f) < 2 THEN FrWrite(f, Zeros(2)) ELSE f),
                 status)

mustRead(f) ==
  CASE BitAnd(f.op[2], 127) = 127 -> 8
    [] BitAnd(f.op[2], 127) = 126 -> 2
    [] OTHER -> 0

(***************************************************************************)
(* io.Writer.  A writer is [size, buf, out, quota, err]: out holds the     *)
(* bytes the underlying sink has accepted, quota is the number of bytes    *)
(* the sink accepts before its Write fails (-1: it never fails).  With     *)
(* size = 0 the writer is the sink itself; with size > 0 it is a           *)
(* bufio.Writer of that size over the sink, buf its unflushed bytes and    *)
(* err its sticky error.                                                   *)
(***************************************************************************)
Sink(out, quota) ==
  [size |-> 0, buf |-> <<>>, out |-> out, quota |-> quota, err |-> "nil"]

\* the sink's Write(p)
SinkWrite(w, p) ==
  IF w.quota = -1 \/ Len(p) <= w.quota
  THEN [w |-> [w EXCEPT !.out = @ \o p,
                        !.quota = IF @ = -1 THEN -1 ELSE @ - Len(p)],
        n |-> Len(p), err |-> "nil"]
  ELSE [w |-> [w EXCEPT !.out = @ \o Take(p, w.quota), !.quota = 0],
        n |-> w.quota, err |-> "errWrite"]

\* bufio.Writer.Flush
Flush(w) ==
  IF w.err # "nil" THEN [w |-> w, err |-> w.err]
  ELSE IF Len(w.buf) = 0 THEN [w |-> w, err |-> "nil"]
  ELSE LET r == SinkWrite(w, w.buf)
       IN  IF r.err # "nil"
           THEN [w |-> [r.w EXCEPT !.buf = Drop(w.buf, r.n), !.err = r.err],
                 err |-> r.err]
           ELSE [w |-> [r.w EXCEPT !.buf = <<>>], err |-> "nil"]

\* bufio.Writer.Write
RECURSIVE BufWrite(_, _, _)
BufWrite(w, p, nn) ==
  IF Len(p) > w.size - Len(w.buf) /\ w.err = "nil"
  THEN IF Len(w.buf) = 0
       THEN \* large write, empty buffer: written directly to the sink
            LET r == SinkWrite(w, p)
            IN  BufWrite([r.w EXCEPT !.err = r.err], Drop(p, r.n), nn + r.n)
       ELSE LET n == w.size - Len(w.buf)
                f == Flush([w EXCEPT !.buf = @ \o Take(p, n)])
            IN  BufWrite(f.w, Drop(p, n), nn + n)
  ELSE IF w.err # "nil" THEN [w |-> w, n |-> nn, err |-> w.err]
  ELSE [w |-> [w EXCEPT !.buf = @ \o p], n |-> nn + Len(p), err |-> "nil"]

\* wr.Write(p)
WrWrite(w, p) == IF w.size = 0 THEN SinkWrite(w, p) ELSE BufWrite(w, p, 0)

\* Frame.WriteTo: the frame (its length field set), the writer, n and err
NoWrite(w) == [w |-> w, n |-> 0, err |-> "nil"]

\* the payload was written (r3), after the header (r1) and the mask key (r2)
WriteToDone(g, r1, r2, r3) ==
  [fr |-> g, w |-> r3.w, n |-> r1.n + r2.n + r3.n, err |-> r3.err]

\* the mask key was written (r2): the payload follows unless it is empty
WriteToPayload(g, r1, r2) ==
  IF r2.err # "nil" THEN [fr |-> g, w |-> r2.w, n |-> r1.n, err |-> r2.err]
  ELSE WriteToDone(g, r1, r2,
                   IF Len(g.b) # 0 THEN WrWrite(r2.w, g.b) ELSE NoWrite(r2.w))

\* the header was written (r1): the mask key follows if the frame is masked
WriteToMask(g, r1) ==
  IF r1.err # "nil" THEN [fr |-> g, w |-> r1.w, n |-> 0, err |-> r1.err]
  ELSE WriteToPayload(g, r1,
                      IF IsMasked(g) THEN WrWrite(r1.w, g.mask)
                      ELSE NoWrite(r1.w))

\* l is what setPayloadLen returned: op[:s+2] is written first
WriteToHeader(l, w) == WriteToMask(l.fr, WrWrite(w, Take(l.fr.op, l.s + 2)))

WriteTo(f, w) == WriteToHeader(setPayloadLen(f), w)

(***************************************************************************)
(* io.Reader.  A source is [data, end]: the bytes it still delivers and    *)
(* the error its Read returns once they are used up ("EOF" for a stream    *)
(* that ended, otherwise the transport's error).                           *)
(***************************************************************************)
\* io.ReadFull(r, buf) for a buf of k bytes: the bytes put into buf
ReadFull(src, k) ==
  IF k = 0 THEN [got |-> <<>>, src |-> src, n |-> 0, err |-> "nil"]
  ELSE IF Len(src.data) >= k
  THEN [got |-> Take(src.data, k), src |-> [src EXCEPT !.data = Drop(@, k)],
        n |-> k, err |-> "nil"]
  ELSE [got |-> src.data, src |-> [src EXCEPT !.data = <<>>],
        n |-> Len(src.data),
        err |-> IF src.end = "EOF"
                THEN IF Len(src.data) = 0 THEN "EOF" ELSE "ErrUnexpectedEOF"
                ELSE src.end]

\* errors.Is(err, io.ErrUnexpectedEOF) => errReadingHeader
HeaderErr(err) == IF err = "ErrUnexpectedEOF" THEN "errReadingHeader" ELSE err

\* buf with its first bytes replaced by the bytes read
Overwrite(buf, got) == got \o Drop(buf, Len(got))

\* a slip of the size test: the frame's own max is not consulted
TooBigCeilingOnly(f) == U64Gt(FrameLen(f), limitLen)

\* the size test of readFrom
TooBig(f) ==
  \/ ~U64IsZero(f.max) /\ U64Gt(FrameLen(f), f.max)
  \/ U64Gt(FrameLen(f), limitLen)

\* what readFrom holds after a read r into frame f
Ret(f, r, err) == [fr |-> f, src |-> r.src, n |-> r.n, err |-> err]

\* the first 2 bytes were read (r)
readFromOp(f, r) ==
  Ret([f EXCEPT !.op = Overwrite(@, r.got)], r, HeaderErr(r.err))

\* the extended length bytes were read (r) into op[2:m]
readFromLenBytes(f, r) ==
  Ret([f EXCEPT !.op = Take(@, 2) \o Overwrite(Drop(@, 2), r.got)], r,
      HeaderErr(r.err))

readFromLen(h) ==
  IF h.err # "nil" \/ mustRead(h.fr) + 2 <= 2 THEN h
  ELSE readFromLenBytes(h.fr, ReadFull(h.src, mustRead(h.fr)))

\* the mask key was read (r)
readFromMaskBytes(f, r) ==
  Ret([f EXCEPT !.mask = Overwrite(@, r.got)], r, HeaderErr(r.err))

readFromMask(h) ==
  IF h.err # "nil" \/ ~IsMasked(h.fr) THEN h
  ELSE readFromMaskBytes(h.fr, ReadFull(h.src, 4))

\* readFrom up to and including the mask key; err = "nil": the header was read
readHeader(f, src) ==
  readFromMask(readFromLen(readFromOp(f, ReadFull(src, 2))))

\* fr.b grown to hold nn bytes and re-sliced to fr.b[:nn]
readFromGrow(f, nn) ==
  IF nn - Cap(f) > 0
  THEN Reslice(f.b \o f.spare \o Zeros(nn - Cap(f)),
               Zeros(GrowCap(Cap(f), nn) - nn), nn)
  ELSE Reslice(f.b, f.spare, nn)

\* the payload was read (r) into the buffer s
readFromPayloadBytes(f, s, r) ==
  Ret([f EXCEPT !.b = Overwrite(s.b, r.got), !.spare = s.spare], r, r.err)

readFromPayload(h) ==
  IF h.err # "nil" THEN h
  ELSE IF TooBig(h.fr) THEN [h EXCEPT !.err = "errLenTooBig"]
  ELSE IF U64IsZero(FrameLen(h.fr)) THEN h
  ELSE IF FrameLen(h.fr)[1] >= 128 THEN [h EXCEPT !.err = "panic"]
  ELSE readFromPayloadBytes(h.fr,
                            readFromGrow(h.fr, U64ToNat(FrameLen(h.fr))),
                            ReadFull(h.src, U64ToNat(FrameLen(h.fr))))

\* Frame.readFrom: the frame, the source, n and err
readFrom(f, src) == readFromPayload(readHeader(f, src))

ReadFrom(f, src) == readFrom(f, src)

(***************************************************************************)
(* The frame API: a holder acquires a frame from the pool and applies      *)
(* frame operations to it in any order.                                    *)
(***************************************************************************)
MaxOps == 4

MaxLen == 5

\* payload bytes the callers pass: byte i of every payload
PayloadByte(i) == (i * 37 + 35) % 256

MkPayload(n) == [i \in 1..n |-> PayloadByte(i)]

Payloads == {MkPayload(n) : n \in {0, 1, 2, MaxLen}}

\* keys readMask can draw (any 4 bytes)
Keys == {<<0, 0, 0, 0>>, <<18, 52, 86, 120>>, <<255, 128, 7, 0>>}

Statuses == {StatusNone, 1001}

Codes == {CodeText, CodeClose}

ReleaseFrame(f) == Reset(f)

\* what framePool.Get can return: a new frame, or one released by an
\* earlier holder (here one that carried a masked payload of MaxLen bytes)
PoolFrames ==
  {NewFrame,
   ReleaseFrame(Mask(SetPayload(SetText(NewFrame), MkPayload(MaxLen)),
                     <<18, 52, 86, 120>>))}

AcquireFrame == PoolFrames

NoIo == [wn |-> 0, werr |-> "nil", rn |-> 0, rerr |-> "nil"]

\* the client's variables where no client is modelled
NoClient ==
  /\ conn = [open |-> FALSE, data |-> <<>>, end |-> "EOF"]
  /\ bw = Sink(<<>>, 0)
  /\ cl = FALSE
  /\ pool = {}
  /\ last = [op |-> "none"]
  /\ nops = [client |-> 0, server |-> 0]

InitFrame ==
  /\ fr \in AcquireFrame
  /\ hist = <<>>
  /\ rx = NewFrame
  /\ wire = <<>>
  /\ inp = <<>>
  /\ io = NoIo
  /\ pc = "api"
  /\ NoClient

Step(op, arg, f) ==
  /\ Len(hist) < MaxOps
  /\ fr' = f
  /\ hist' = Append(hist, [op |-> op, arg |-> arg, before |-> fr])
  /\ UNCHANGED <<codecVars, clientVars>>

\* the frame after the k-th operation of hist
After(k) == IF k = Len(hist) THEN fr ELSE hist[k + 1].before

DoReset == Step("Reset", <<>>, Reset(fr))

DoSetFin == Step("SetFin", <<>>, SetFin(fr))

DoSetCode == \E c \in Codes : Step("SetCode", c, SetCode(fr, c))

DoSetPayload == \E p \in Payloads : Step("SetPayload", p, SetPayload(fr, p))

DoSetStatus == \E s \in Statuses : Step("SetStatus", s, SetStatus(fr, s))

DoMask == \E k \in Keys : Step("Mask", k, Mask(fr, k))

DoUnmask == Step("Unmask", <<>>, Unmask(fr))

DoUnsetMask == Step("UnsetMask", <<>>, UnsetMask(fr))

NextFrame ==
  \/ DoReset
  \/ DoSetFin
  \/ DoSetCode
  \/ DoSetPayload
  \/ DoSetStatus
  \/ DoMask
  \/ DoUnmask
  \/ DoUnsetMask

Spec == InitFrame /\ [][NextFrame]_vars

(***************************************************************************)
(* The codec run: a frame is built on a reset frame (SetCode, SetPayload,  *)
(* SetFin), encoded by WriteTo, and decoded by ReadFrom into another       *)
(* frame; or ReadFrom decodes a stream a peer crafted.                     *)
(***************************************************************************)
LitMax == 125

U16Max == 65535

MaxPayload == 70000

\* the largest payload buffer a modelled ReadFrom allocates
MaxAlloc == MaxPayload + 2

CodecLens ==
  {0, 1, 2, LitMax - 2, LitMax - 1, LitMax, LitMax + 1,
   U16Max - 2, U16Max - 1, U16Max, U16Max + 1, MaxPayload}

\* the max payload sizes the receiver sets: unlimited, small, the default
MaxSizes == {NatToU64(0), NatToU64(4), DefaultPayloadSize}

\* the receiving frames: as acquired, or holding the last message read
RxFrames ==
  {SetPayloadSize(f, m) :
     f \in AcquireFrame \cup {SetPayload(SetText(NewFrame), MkPayload(2))},
     m \in MaxSizes}

\* length fields a peer can send: [len7, ext]
CraftedLens ==
  {[len7 |-> n, ext |-> <<>>] : n \in {0, 4, 5}}
  \cup {[len7 |-> 126, ext |-> e] : e \in {<<0, 4>>, <<0, 5>>, <<1, 0>>}}
  \cup {[len7 |-> 127, ext |-> e] :
          e \in {NatToU64(5), DefaultPayloadSize,
                 <<0, 0, 0, 0, 0, 16, 0, 1>>,
                 limitLen,
                 <<0, 0, 0, 1, 0, 0, 0, 1>>,
                 <<128, 0, 0, 0, 0, 0, 0, 0>>,
                 <<255, 255, 255, 255, 255, 255, 255, 255>>}}

\* the header a peer sends for length field l, and the bytes after it
CraftedHeader(l, masked) ==
  <<BitOr(finBit, CodeText), (IF masked THEN maskBit ELSE 0) + l.len7>>
    \o l.ext \o (IF masked THEN <<18, 52, 86, 120>> ELSE <<>>)

\* the length the field l declares
DeclaredLen(l) ==
  CASE l.len7 = 126 -> <<0, 0, 0, 0, 0, 0>> \o l.ext
    [] l.len7 = 127 -> l.ext
    [] OTHER -> NatToU64(l.len7)

\* ReadFrom of this source allocates no more than MaxAlloc bytes
Allocates(h) ==
  (h.err = "nil" /\ ~TooBig(h.fr)) =>
    (U64Small(FrameLen(h.fr)) /\ U64ToNat(FrameLen(h.fr)) <= MaxAlloc)

ModelledRead(f, src) == Allocates(readHeader(f, src))

InitCodec ==
  /\ fr \in AcquireFrame
  /\ hist = <<>>
  /\ rx \in RxFrames
  /\ wire = <<>>
  /\ inp = [code |-> -1, fin |-> FALSE, len |-> -1, rx0 |-> rx,
            crafted |-> FALSE, hdr |-> 0, decl |-> NatToU64(0), rest |-> <<>>]
  /\ io = NoIo
  /\ pc = "build"
  /\ NoClient

CSetCode ==
  /\ pc = "build" /\ inp.code = -1
  /\ \E c \in 0..15 :
       /\ fr' = SetCode(fr, c)
       /\ inp' = [inp EXCEPT !.code = c]
  /\ UNCHANGED <<hist, rx, wire, io, pc, clientVars>>

CSetFin ==
  /\ pc = "build" /\ ~inp.fin
  /\ fr' = SetFin(fr)
  /\ inp' = [inp EXCEPT !.fin = TRUE]
  /\ UNCHANGED <<hist, rx, wire, io, pc, clientVars>>

\* payloads beyond the 7-bit length field are tried with a data and a Close
\* opcode and a receiver as acquired, the shorter ones with all
CSetPayload ==
  /\ pc = "build" /\ inp.code # -1 /\ inp.len = -1
  /\ \E n \in CodecLens :
       /\ n > LitMax + 1 =>
            (inp.code \in {CodeText, CodeClose} /\ inp.rx0 \in AcquireFrame)
       /\ fr' = SetPayload(fr, MkPayload(n))
       /\ inp' = [inp EXCEPT !.len = n]
  /\ UNCHANGED <<hist, rx, wire, io, pc, clientVars>>

\* inp records the places of the header and the payload on the wire
CWritten(r) ==
  /\ fr' = r.fr
  /\ wire' = r.w.out
  /\ io' = [io EXCEPT !.wn = r.n, !.werr = r.err]
  /\ inp' = [inp EXCEPT !.hdr = r.n - Len(fr.b),
                        !.decl = NatToU64(Len(fr.b))]

CWriteTo ==
  /\ pc = "build" /\ inp.len # -1
  /\ CWritten(WriteTo(fr, Sink(wire, -1)))
  /\ pc' = "written"
  /\ UNCHANGED <<hist, rx, clientVars>>

\* a peer's bytes: a header and k bytes after it
CCraft ==
  /\ pc = "build" /\ inp.code = -1 /\ ~inp.fin
  /\ \E l \in CraftedLens, masked \in BOOLEAN, k \in {0, MaxLen} :
       /\ wire' = CraftedHeader(l, masked) \o MkPayload(k)
       /\ inp' = [inp EXCEPT !.crafted = TRUE,
                             !.hdr = Len(CraftedHeader(l, masked)),
                             !.decl = DeclaredLen(l),
                             !.rest = MkPayload(k)]
  /\ pc' = "written"
  /\ UNCHANGED <<fr, hist, rx, io, clientVars>>

CRead(r) ==
  /\ rx' = r.fr
  /\ wire' = r.src.data
  /\ io' = [io EXCEPT !.rn = r.n, !.rerr = r.err]

CReadFrom ==
  /\ pc = "written"
  /\ ModelledRead(rx, [data |-> wire, end |-> "EOF"])
  /\ CRead(ReadFrom(rx, [data |-> wire, end |-> "EOF"]))
  /\ pc' = "read"
  /\ UNCHANGED <<fr, hist, inp, clientVars>>

NextCodec ==
  \/ CSetCode
  \/ CSetFin
  \/ CSetPayload
  \/ CWriteTo
  \/ CCraft
  \/ CReadFrom

SpecCodec == InitCodec /\ [][NextCodec]_vars

(***************************************************************************)
(* The client role (client.go).  The peer is a process of its own: it      *)
(* answers the opening request, sends frames and ends the stream whenever  *)
(* it likes.  A call of the client that reads waits while the stream has   *)
(* neither the bytes it needs nor an end ("block").                        *)
(***************************************************************************)
\* the calls of the client API after the handshake, Close apart
MaxCalls == 1

\* the frames the peer sends after its response
MaxSends == 1

\* bufio's default buffer size, of bufio.NewWriter(c)
bufSize == 4096

ErrCannotUpgrade == "ErrCannotUpgrade"

\* header values are strings of character codes
websocketString == <<119, 101, 98, 115, 111, 99, 107, 101, 116>>

\* the lower-case form of an ASCII character
ToLower(ch) == IF ch \in 65..90 THEN ch + 32 ELSE ch

\* equalsFold(b, s): b and s are equal up to the case of their letters
equalsFold(b, s) ==
  /\ Len(b) = Len(s)
  /\ \A i \in 1..Len(b) : ToLower(b[i]) = ToLower(s[i])

\* the opening request as req.Write puts it on the stream, abridged to its
\* method: its content is a matter of the HTTP library
Request == <<71, 69, 84, 32>>

\* no response on the stream
NoResponse == [kind |-> "none", status |-> 0, upgrade |-> <<>>]

\* the values of the Upgrade header the peer answers with: "websocket",
\* "WEBSOCKET", "websockets", "h2c" and none
Upgrades ==
  {websocketString,
   <<87, 69, 66, 83, 79, 67, 75, 69, 84>>,
   <<119, 101, 98, 115, 111, 99, 107, 101, 116, 115>>,
   <<104, 50, 99>>,
   <<>>}

\* what the peer can answer: a response, or bytes that are no response
Responses ==
  [kind : {"response"}, status : {101, 200}, upgrade : Upgrades]
    \cup {[kind |-> "malformed", status |-> 0, upgrade |-> <<>>]}

\* the bytes the stream accepts before its Write fails (-1: it never fails)
Quotas == {-1, Len(Request) + 3, Len(Request) + bufSize}

\* bufio.NewWriter(c) over the stream behind w
NewWriter(w) == [w EXCEPT !.size = bufSize, !.buf = <<>>, !.err = "nil"]

\* req.Write(bw); bw.Flush(), their errors dropped
SendRequest(w) == Flush(BufWrite(NewWriter(w), Request, 0).w).w

\* res.Read(br) on the stream c: "block" while nothing has arrived
resRead(c) ==
  IF c.head.kind = "response" THEN "nil"
  ELSE IF c.head.kind = "malformed" THEN "errParse"
  ELSE c.end

\* a slip of the handshake check: the status code is not looked at
UpgradeAnyStatus(c) ==
  IF resRead(c) = "nil"
  THEN IF ~equalsFold(c.head.upgrade, websocketString)
       THEN ErrCannotUpgrade ELSE "nil"
  ELSE resRead(c)

\* a slip of the handshake's error: a response that cannot be read is
\* reported as ErrCannotUpgrade too
UpgradeWrapsReadError(c) ==
  IF resRead(c) = "nil" /\ c.head.status = 101
     /\ equalsFold(c.head.upgrade, websocketString)
  THEN "nil" ELSE ErrCannotUpgrade

\* the error UpgradeAsClient returns once the request is sent
UpgradeAsClient(c) ==
  IF resRead(c) = "nil"
  THEN IF c.head.status # 101
          \/ ~equalsFold(c.head.upgrade, websocketString)
       THEN ErrCannotUpgrade ELSE "nil"
  ELSE resRead(c)

\* what a call returned: out0 is the stream's output before the call
Returned(op, err, n, f, res) ==
  [op |-> op, err |-> err, n |-> n, fr |-> f, out0 |-> bw.out, res |-> res,
   b |-> <<>>]

InitClient ==
  /\ fr = NewFrame
  /\ hist = <<>>
  /\ rx = NewFrame
  /\ wire = <<>>
  /\ inp = <<>>
  /\ io = NoIo
  /\ pc = "idle"
  /\ conn = [open |-> TRUE, head |-> NoResponse, data |-> <<>>,
             end |-> "block", deadline |-> FALSE]
  /\ \E q \in Quotas : bw = NewWriter(Sink(<<>>, q))
  /\ cl = FALSE
  /\ pool = {}
  /\ last = Returned("none", "nil", 0, NewFrame, NoResponse)
  /\ nops = [client |-> 0, server |-> 0]

\* UpgradeAsClient up to bw.Flush(): the request goes out
UpgradeSend ==
  /\ pc = "idle"
  /\ bw' = SendRequest(bw)
  /\ pc' = "upgrading"
  /\ UNCHANGED <<frameVars, rx, wire, inp, io, conn, cl, pool, last, nops>>

\* the peer answers the request
ServerRespond ==
  /\ pc = "upgrading" /\ conn.head.kind = "none" /\ conn.end = "block"
  /\ \E res \in Responses : conn' = [conn EXCEPT !.head = res]
  /\ UNCHANGED <<frameVars, codecVars, bw, cl, pool, last, nops>>

\* client(): res.Read(br) returns and the handshake is decided.  br has read
\* what had arrived; it is dropped with the bytes it holds, and a Client is
\* made over a new bufio reader and writer when the error is nil
UpgradeRecv ==
  /\ pc = "upgrading"
  /\ resRead(conn) # "block"
  /\ last' = Returned("client", UpgradeAsClient(conn), 0, NewFrame, conn.head)
  /\ cl' = (UpgradeAsClient(conn) = "nil")
  /\ pc' = IF UpgradeAsClient(conn) = "nil" THEN "open" ELSE "failed"
  /\ bw' = IF UpgradeAsClient(conn) = "nil" THEN NewWriter(bw) ELSE bw
  /\ conn' = [conn EXCEPT !.head = NoResponse, !.data = <<>>]
  /\ UNCHANGED <<frameVars, rx, wire, inp, io, pool, nops>>

\* the payloads the caller sends in its k-th call: empty, short, and in the
\* first call one that exceeds what the bufio writer holds after a flush
ClientPayloads(k) ==
  {MkPayload(0), MkPayload(MaxLen)}
    \cup IF k = 0 THEN {MkPayload(2 * bufSize + 1)} ELSE {}

\* the keys readMask can draw
ClientKeys == {<<0, 0, 0, 0>>, <<18, 52, 86, 120>>}

\* frames the caller built for WriteFrame: an unmasked Ping, a masked final
\* Text frame and an empty unmasked Continuation without FIN
CallerFrames ==
  {SetPayload(SetFin(SetCode(NewFrame, CodePing)), MkPayload(2)),
   Mask(SetPayload(SetFin(SetText(NewFrame)), MkPayload(MaxLen)),
        <<18, 52, 86, 120>>),
   SetCode(NewFrame, CodeContinuation)}

\* the frames the peer sends: a Text frame "hi", a Close frame with status
\* 1000, and a Text frame cut short after its first payload byte
ServerFrames ==
  {<<129, 2, 104, 105>>, <<136, 2, 3, 232>>, <<129, 5, 1>>}

\* framePool.Get: a new frame or one that was put back
PoolGet == {NewFrame} \cup pool

\* err = c.brw.Flush() after a WriteTo without error (r)
WriteFrameFlush(r, fl) == [fr |-> r.fr, w |-> fl.w, n |-> r.n, err |-> fl.err]

WriteFrameDone(r) ==
  IF r.err = "nil" THEN WriteFrameFlush(r, Flush(r.w)) ELSE r

\* a slip of WriteFrame: the buffered writer is not flushed
WriteFrameNoFlush(w, f) == WriteTo(f, w)

\* Client.WriteFrame on the writer w: the frame, the writer, n and err
WriteFrame(w, f) == WriteFrameDone(WriteTo(f, w))

\* a slip of Write: the frame is sent as the caller's bytes, not masked
ClientWriteNoMask(w, f, b, key) ==
  WriteFrame(w, SetText(SetPayload(SetFin(f), b)))

\* Client.Write on the acquired frame f with the key readMask draws
ClientWrite(w, f, b, key) ==
  WriteFrame(w, Mask(SetText(SetPayload(SetFin(f), b)), key))

\* Client.WriteBinary
ClientWriteBinary(w, f, b, key) ==
  WriteFrame(w, Mask(SetBinary(SetPayload(SetFin(f), b)), key))

\* Client.ReadFrame
ReadFrame(f, src) == ReadFrom(f, src)

\* the frame Close() sends
CloseFrame(f) == SetStatus(SetFin(SetClose(f)), StatusNone)

\* what c.brw reads from
Inbound == [data |-> conn.data, end |-> conn.end]

\* a writing call returned r
Wrote(op, r) ==
  /\ bw' = r.w
  /\ last' = Returned(op, r.err, r.n, r.fr, NoResponse)
  /\ nops' = [nops EXCEPT !.client = @ + 1]

\* Write or WriteBinary returned r for the content b
WroteBytes(op, b, r) ==
  /\ bw' = r.w
  /\ last' = [Returned(op, r.err, r.n, r.fr, NoResponse) EXCEPT !.b = b]
  /\ nops' = [nops EXCEPT !.client = @ + 1]

\* Write and WriteBinary release their frame on return
Released(f, r) == pool' = (pool \ {f}) \cup {ReleaseFrame(r.fr)}

ClWrite ==
  /\ pc = "open" /\ nops.client < MaxCalls
  /\ \E f \in PoolGet, b \in ClientPayloads(nops.client), key \in ClientKeys :
       /\ WroteBytes("Write", b, ClientWrite(bw, f, b, key))
       /\ Released(f, ClientWrite(bw, f, b, key))
  /\ UNCHANGED <<frameVars, codecVars, conn, cl>>

ClWriteBinary ==
  /\ pc = "open" /\ nops.client < MaxCalls
  /\ \E f \in PoolGet, b \in ClientPayloads(nops.client), key \in ClientKeys :
       /\ WroteBytes("WriteBinary", b, ClientWriteBinary(bw, f, b, key))
       /\ Released(f, ClientWriteBinary(bw, f, b, key))
  /\ UNCHANGED <<frameVars, codecVars, conn, cl>>

ClWriteFrame ==
  /\ pc = "open" /\ nops.client < MaxCalls
  /\ \E f \in CallerFrames : Wrote("WriteFrame", WriteFrame(bw, f))
  /\ UNCHANGED <<frameVars, codecVars, conn, cl, pool>>

\* ReadFrame returned r
DidRead(r) ==
  /\ r.err # "block"
  /\ rx' = r.fr
  /\ conn' = [conn EXCEPT !.data = r.src.data]
  /\ last' = Returned("ReadFrame", r.err, r.n, r.fr, NoResponse)

ClReadFrame ==
  /\ pc = "open" /\ nops.client < MaxCalls
  /\ DidRead(ReadFrame(rx, Inbound))
  /\ nops' = [nops EXCEPT !.client = @ + 1]
  /\ UNCHANGED <<frameVars, wire, inp, io, pc, bw, cl, pool>>

\* Close() wrote its frame (r): it returns the error, or sets the read
\* deadline and goes on to read
CloseWrote(r) ==
  /\ fr' = r.fr
  /\ bw' = r.w
  /\ IF r.err # "nil"
     THEN /\ pc' = "closed"
          /\ last' = Returned("Close", r.err, r.n, r.fr, NoResponse)
          /\ conn' = conn
     ELSE /\ pc' = "closing"
          /\ last' = Returned("Close:WriteFrame", r.err, r.n, r.fr, NoResponse)
          /\ conn' = [conn EXCEPT !.deadline = TRUE]

\* Close() up to c.ReadFrame(fr)
CloseSend ==
  /\ pc = "open"
  /\ \E f \in PoolGet :
       /\ CloseWrote(WriteFrame(bw, CloseFrame(f)))
       /\ pool' = pool \ {f}
  /\ UNCHANGED <<hist, rx, wire, inp, io, cl, nops>>

\* the read deadline passes while Close() waits for the peer
Timeout ==
  /\ pc = "closing" /\ conn.deadline /\ conn.end = "block"
  /\ conn' = [conn EXCEPT !.end = "timeout"]
  /\ UNCHANGED <<frameVars, codecVars, bw, cl, pool, last, nops>>

\* c.ReadFrame(fr) returned r, its result dropped; return c.c.Close()
CloseRead(r) ==
  /\ r.err # "block"
  /\ fr' = r.fr
  /\ conn' = [conn EXCEPT !.data = r.src.data, !.open = FALSE]
  /\ last' = Returned("Close", "nil", 0, r.fr, NoResponse)

CloseRecv ==
  /\ pc = "closing"
  /\ CloseRead(ReadFrame(fr, Inbound))
  /\ pc' = "closed"
  /\ UNCHANGED <<hist, rx, wire, inp, io, bw, cl, pool, nops>>

\* the peer sends a frame after its response
ServerSend ==
  /\ pc \in {"upgrading", "open", "closing"}
  /\ pc = "upgrading" => conn.head.kind = "response"
  /\ conn.end = "block" /\ nops.server < MaxSends
  /\ \E s \in ServerFrames : conn' = [conn EXCEPT !.data = @ \o s]
  /\ nops' = [nops EXCEPT !.server = @ + 1]
  /\ UNCHANGED <<frameVars, codecVars, bw, cl, pool, last>>

\* the peer ends the stream
ServerClose ==
  /\ pc \in {"upgrading", "open", "closing"}
  /\ conn.end = "block"
  /\ conn' = [conn EXCEPT !.end = "EOF"]
  /\ UNCHANGED <<frameVars, codecVars, bw, cl, pool, last, nops>>

NextClient ==
  \/ UpgradeSend
  \/ ServerRespond
  \/ UpgradeRecv
  \/ ClWrite
  \/ ClWriteBinary
  \/ ClWriteFrame
  \/ ClReadFrame
  \/ CloseSend
  \/ Timeout
  \/ CloseRecv
  \/ ServerSend
  \/ ServerClose

SpecClient == InitClient /\ [][NextClient]_vars

(***************************************************************************)
(* A frame's life through framePool: a holder acquires it, works on it,    *)
(* writes it, fills it from a source, and releases it to the next holder.  *)
(* rx is the same instance in a second run that differs only in the bytes  *)
(* the first holder stored: every later holder does the same in both runs. *)
(***************************************************************************)
\* the operations of all holders together
MaxSteps == 4

\* the payloads a holder sets
PoolPayloads == {MkPayload(2), MkPayload(MaxLen)}

\* the bytes the first holder stores in the second run
AltPayload(p) == [i \in 1..Len(p) |-> (p[i] + 1) % 256]

\* what ReadFrom is given, each ended by EOF: nothing; one header byte; a
\* whole unmasked frame of 2 bytes; a whole masked frame of 2 bytes; a header
\* that announces 2 length bytes and ends, or ends after one of them; a
\* masked header that ends before its key, or 2 bytes into it; a header
\* that announces 5 bytes and ends, or ends after 3 of them; a Text frame of
\* length 0; a Close frame of 1 byte; a Close frame with the status 1000 and
\* the reason "ok"
Sources ==
  {<<>>,
   <<129>>,
   <<129, 2, 104, 105>>,
   <<129, 130, 18, 52, 86, 120, 122, 93>>,
   <<129, 126>>,
   <<129, 126, 0>>,
   <<129, 130>>,
   <<129, 130, 18, 52>>,
   <<129, 5>>,
   <<129, 5, 1, 2, 3>>,
   <<129, 0>>,
   <<136, 1, 3>>,
   <<136, 4, 3, 232, 111, 107>>}

InitPool ==
  /\ fr = NewFrame
  /\ rx = NewFrame
  /\ hist = <<>>
  /\ wire = <<>>
  /\ inp = [steps |-> 0, holders |-> 1, src |-> <<>>, twire |-> <<>>]
  /\ io = NoIo
  /\ pc = "held"
  /\ NoClient

\* the holder applied op: f is the frame after it, t the frame of the
\* second run; of the holder's operations hist keeps the latest
PStep(op, arg, f, t) ==
  /\ pc = "held" /\ inp.steps < MaxSteps
  /\ fr' = f
  /\ rx' = t
  /\ hist' = <<[op |-> op, arg |-> arg, before |-> fr]>>

\* ... and nothing went to or came from a stream
PSet(op, arg, f, t) ==
  /\ PStep(op, arg, f, t)
  /\ inp' = [inp EXCEPT !.steps = @ + 1]
  /\ UNCHANGED <<wire, io, pc, clientVars>>

PSetPayload ==
  \E p \in PoolPayloads :
    PSet("SetPayload", p, SetPayload(fr, p),
         SetPayload(rx, IF inp.holders = 1 THEN AltPayload(p) ELSE p))

PSetClose == PSet("SetClose", <<>>, SetClose(fr), SetClose(rx))

PSetPayloadSize ==
  PSet("SetPayloadSize", NatToU64(0),
       SetPayloadSize(fr, NatToU64(0)), SetPayloadSize(rx, NatToU64(0)))

PSetStatus ==
  PSet("SetStatus", 1001, SetStatus(fr, 1001), SetStatus(rx, 1001))

PReset == PSet("Reset", <<>>, Reset(fr), Reset(rx))

\* WriteTo returned r, and t in the second run
PWritten(r, t) ==
  /\ PStep("WriteTo", <<>>, r.fr, t.fr)
  /\ wire' = r.w.out
  /\ io' = [io EXCEPT !.wn = r.n, !.werr = r.err]
  /\ inp' = [inp EXCEPT !.steps = @ + 1, !.twire = t.w.out]

PWriteTo ==
  /\ PWritten(WriteTo(fr, Sink(<<>>, -1)), WriteTo(rx, Sink(<<>>, -1)))
  /\ UNCHANGED <<pc, clientVars>>

\* ReadFrom of the source s returned r, and t in the second run
PRead(s, r, t) ==
  /\ PStep("ReadFrom", s, r.fr, t.fr)
  /\ io' = [io EXCEPT !.rn = r.n, !.rerr = r.err]
  /\ inp' = [inp EXCEPT !.steps = @ + 1, !.src = s]

PReadFrom ==
  /\ \E s \in Sources :
       PRead(s, ReadFrom(fr, [data |-> s, end |-> "EOF"]),
             ReadFrom(rx, [data |-> s, end |-> "EOF"]))
  /\ UNCHANGED <<wire, pc, clientVars>>

\* ReleaseFrame(fr)
PRelease ==
  /\ PStep("ReleaseFrame", <<>>, ReleaseFrame(fr), ReleaseFrame(rx))
  /\ inp' = [inp EXCEPT !.steps = @ + 1]
  /\ pc' = "pooled"
  /\ UNCHANGED <<wire, io, clientVars>>

\* AcquireFrame by the next holder: framePool.Get returns the released frame
\* or, the pool having dropped it, a new one
PAcquire ==
  /\ pc = "pooled"
  /\ \E new \in BOOLEAN :
       /\ fr' = IF new THEN NewFrame ELSE fr
       /\ rx' = IF new THEN NewFrame ELSE rx
  /\ hist' = <<>>
  /\ inp' = [inp EXCEPT !.holders = @ + 1]
  /\ pc' = "held"
  /\ UNCHANGED <<wire, io, clientVars>>

NextPool ==
  \/ PSetPayload
  \/ PSetClose
  \/ PSetPayloadSize
  \/ PSetStatus
  \/ PReset
  \/ PWriteTo
  \/ PReadFrom
  \/ PRelease
  \/ PAcquire

SpecPool == InitPool /\ [][NextPool]_vars

(***************************************************************************)
(* A frame and its copy: fr is built, copied into fr2 (rx) by CopyTo, and  *)
(* from then on every call is made on both.                                *)
(***************************************************************************)
InitCopy ==
  /\ fr = NewFrame
  /\ rx = NewFrame
  /\ hist = <<>>
  /\ wire = <<>>
  /\ inp = [steps |-> 0]
  /\ io = NoIo
  /\ pc = "build"
  /\ NoClient

\* the caller applied op to fr (f after it) and, once fr2 is the copy, to
\* fr2 (t after it)
KStep(op, arg, f, t) ==
  /\ inp.steps < MaxSteps
  /\ fr' = f
  /\ rx' = IF pc = "copied" THEN t ELSE rx
  /\ hist' = <<[op |-> op, arg |-> arg, before |-> fr]>>
  /\ inp' = [inp EXCEPT !.steps = @ + 1]
  /\ UNCHANGED <<wire, io, pc, clientVars>>

KSetClose == KStep("SetClose", <<>>, SetClose(fr), SetClose(rx))

KSetPayload ==
  \E p \in PoolPayloads :
    KStep("SetPayload", p, SetPayload(fr, p), SetPayload(rx, p))

KSetStatus ==
  \E s \in Statuses :
    KStep("SetStatus", s, SetStatus(fr, s), SetStatus(rx, s))

KMask ==
  KStep("Mask", <<18, 52, 86, 120>>,
        Mask(fr, <<18, 52, 86, 120>>), Mask(rx, <<18, 52, 86, 120>>))

KReset == KStep("Reset", <<>>, Reset(fr), Reset(rx))

\* fr.CopyTo(fr2) on a frame fr2 as acquired
KCopyTo ==
  /\ pc = "build"
  /\ rx' = CopyTo(fr, rx)
  /\ hist' = <<[op |-> "CopyTo", arg |-> <<>>, before |-> fr]>>
  /\ pc' = "copied"
  /\ UNCHANGED <<fr, wire, inp, io, clientVars>>

NextCopy ==
  \/ KSetClose
  \/ KSetPayload
  \/ KSetStatus
  \/ KMask
  \/ KReset
  \/ KCopyTo

SpecCopy == InitCopy /\ [][NextCopy]_vars

(***************************************************************************)
(* C5: masking involution.  Mask() on an unmasked frame sets the mask bit  *)
(* and leaves byte i of the stored payload equal to plaintext[i] XOR       *)
(* key[i mod 4]; an Unmask() that follows restores the plaintext exactly   *)
(* and leaves the mask bit clear.                                          *)
(***************************************************************************)
IsOp(k, op) == k \in 1..Len(hist) /\ hist[k].op = op

C5_MaskInvolution ==
  \A k \in 1..Len(hist) :
    (IsOp(k, "Mask") /\ ~IsMasked(hist[k].before)) =>
      LET plain == hist[k].before.b
          key   == hist[k].arg
      IN  /\ IsMasked(After(k))
          /\ MaskKey(After(k)) = key
          /\ Len(After(k).b) = Len(plain)
          /\ \A i \in 1..Len(plain) :
               After(k).b[i] = BitXor(plain[i], key[((i - 1) % 4) + 1])
          /\ IsOp(k + 1, "Unmask") =>
               /\ After(k + 1).b = plain
               /\ Payload(After(k + 1)) = Payload(hist[k].before)
               /\ ~IsMasked(After(k + 1))

\* Mask() then Unmask() acted on an unmasked payload whose length is no
\* multiple of 4 and exceeds the key length, under a key that changes it
C5_Witness ==
  \E k \in 1..Len(hist) :
    /\ IsOp(k, "Mask") /\ IsOp(k + 1, "Unmask")
    /\ ~IsMasked(hist[k].before)
    /\ Len(hist[k].before.b) = MaxLen
    /\ MaxLen % 4 # 0
    /\ hist[k + 1].before.b # hist[k].before.b
    /\ After(k + 1).b = hist[k].before.b

(***************************************************************************)
(* C9: close status round trip.  On a reset Close frame, after             *)
(* SetStatus(s) Status() is s and Payload() excludes the status bytes; a   *)
(* following SetPayload(p) keeps the status, so Status() is s and          *)
(* Payload() is p; a second SetStatus(t) overwrites the status in place    *)
(* and leaves PayloadLen() and Payload() as they were.                     *)
(***************************************************************************)
\* the k-th operation met a reset frame and made it a Close frame
ResetClose(k) ==
  /\ IsOp(k, "SetCode") /\ hist[k].arg = CodeClose
  /\ (k = 1 \/ IsOp(k - 1, "Reset"))

C9_StatusRoundTrip ==
  \A k \in 1..Len(hist) :
    (ResetClose(k) /\ IsOp(k + 1, "SetStatus")) =>
      LET s == hist[k + 1].arg
      IN  /\ Status(After(k + 1)) = s
          /\ Payload(After(k + 1)) = <<>>
          /\ PayloadLen(After(k + 1)) = 2
          /\ IsOp(k + 2, "SetStatus") =>
               /\ Status(After(k + 2)) = hist[k + 2].arg
               /\ Payload(After(k + 2)) = <<>>
               /\ PayloadLen(After(k + 2)) = 2
          /\ IsOp(k + 2, "SetPayload") =>
               /\ Status(After(k + 2)) = s
               /\ Payload(After(k + 2)) = hist[k + 2].arg
               /\ IsOp(k + 3, "SetStatus") =>
                    /\ Status(After(k + 3)) = hist[k + 3].arg
                    /\ Payload(After(k + 3)) = hist[k + 2].arg
                    /\ PayloadLen(After(k + 3)) = PayloadLen(After(k + 2))

\* SetStatus(s), SetPayload(p), SetStatus(t) acted on a reset Close frame,
\* with p not empty and t different from s
C9_Witness ==
  /\ Len(hist) >= 4
  /\ ResetClose(1)
  /\ IsOp(2, "SetStatus") /\ IsOp(3, "SetPayload") /\ IsOp(4, "SetStatus")
  /\ hist[3].arg # <<>>
  /\ hist[4].arg # hist[2].arg
  /\ Status(After(4)) = hist[4].arg
  /\ Payload(After(4)) = hist[3].arg

(***************************************************************************)
(* C1: round trip.  A frame built on a reset frame by SetCode(op) and      *)
(* SetPayload(p), with or without SetFin, encoded by WriteTo and decoded   *)
(* by ReadFrom into a reset frame, yields the same Code(), the same        *)
(* IsFin() and a Payload() equal to p, for payloads of 0..MaxPayload       *)
(* bytes.                                                                  *)
(***************************************************************************)
IsReset(f) == f = Reset(f)

\* the run encoded a frame and decoded it into a reset frame that accepts it
RoundTripRun ==
  /\ pc = "read" /\ ~inp.crafted
  /\ IsReset(inp.rx0)
  /\ inp.rx0.max \in {NatToU64(0), DefaultPayloadSize}

C1_RoundTrip ==
  RoundTripRun =>
    /\ io.werr = "nil" /\ io.rerr = "nil"
    /\ Code(rx) = inp.code /\ Code(rx) = Code(fr)
    /\ IsFin(rx) = inp.fin /\ IsFin(rx) = IsFin(fr)
    /\ Payload(rx) = MkPayload(inp.len)
    /\ wire = <<>>

\* a Close frame with FIN and a payload that needs the 16-bit length made
\* the round trip
C1_Witness ==
  /\ RoundTripRun
  /\ inp.code = CodeClose /\ inp.fin /\ inp.len = LitMax + 1
  /\ Payload(rx) = MkPayload(LitMax + 1)
  /\ Code(rx) = CodeClose /\ IsFin(rx)

(***************************************************************************)
(* C8: length encoding thresholds.  WriteTo of a frame that was reset      *)
(* before its payload was set, holding n payload bytes, emits n itself in  *)
(* the 7-bit field and no further length bytes for n <= 125, 126 and a     *)
(* 2-byte big-endian n for 126 <= n <= 65535, 127 and an 8-byte big-endian *)
(* n for n >= 65536; decoding the header gives Len() = n.                  *)
(***************************************************************************)
C8_LengthThresholds ==
  /\ (pc = "written" /\ ~inp.crafted) =>
       /\ io.werr = "nil"
       /\ Len(fr.b) <= 125 =>
            /\ BitAnd(wire[2], 127) = Len(fr.b)
            /\ Drop(wire, 2) = fr.b
       /\ (Len(fr.b) >= 126 /\ Len(fr.b) <= 65535) =>
            /\ BitAnd(wire[2], 127) = 126
            /\ wire[3] * 256 + wire[4] = Len(fr.b)
            /\ Drop(wire, 4) = fr.b
       /\ Len(fr.b) >= 65536 =>
            /\ BitAnd(wire[2], 127) = 127
            /\ SubSeq(wire, 3, 6) = <<0, 0, 0, 0>>
            /\ ((wire[7] * 256 + wire[8]) * 256 + wire[9]) * 256 + wire[10]
                 = Len(fr.b)
            /\ Drop(wire, 10) = fr.b
  /\ (pc = "read" /\ ~inp.crafted) =>
       /\ FrameLen(rx) = NatToU64(Len(fr.b))
       /\ (Len(fr.b) <= 125) = (mustRead(rx) = 0)
       /\ (Len(fr.b) >= 65536) = (mustRead(rx) = 8)

\* a payload of 126 bytes, the first beyond the 7-bit field, was written with
\* the 2-byte length and decoded
C8_Witness ==
  /\ pc = "read" /\ ~inp.crafted
  /\ Len(fr.b) = 126
  /\ mustRead(rx) = 2
  /\ FrameLen(rx) = <<0, 0, 0, 0, 0, 0, 0, 126>>

(***************************************************************************)
(* C4: oversized frame rejection.  When the header ReadFrom decodes        *)
(* declares a length above the frame's non-zero max payload size, or above *)
(* 2^32 whatever the max, ReadFrom returns the frame-too-large error       *)
(* having consumed the header bytes, the extended length bytes and the     *)
(* mask key only: no payload byte is consumed, and the stored payload      *)
(* buffer is unchanged.                                                    *)
(***************************************************************************)
\* the declared length exceeds what the receiving frame accepts
Oversized ==
  \/ ~U64IsZero(inp.rx0.max) /\ U64Gt(inp.decl, inp.rx0.max)
  \/ U64Gt(inp.decl, <<0, 0, 0, 1, 0, 0, 0, 0>>)

\* the bytes that followed the header on the wire
AfterHeader == IF inp.crafted THEN inp.rest ELSE fr.b

C4_OversizedRejected ==
  (pc = "read" /\ Oversized) =>
    /\ io.rerr = "errLenTooBig"
    /\ wire = AfterHeader
    /\ rx.b = inp.rx0.b
    /\ rx.spare = inp.rx0.spare

\* a masked header declaring more than 2^32 bytes was rejected by a frame
\* without a max that holds a payload, the bytes after the key left unread
C4_Witness ==
  /\ pc = "read" /\ inp.crafted /\ Oversized
  /\ U64IsZero(inp.rx0.max)
  /\ IsMasked(rx)
  /\ inp.rx0.b # <<>>
  /\ inp.rest # <<>>
  /\ wire = inp.rest
  /\ io.rerr = "errLenTooBig"

(***************************************************************************)
(* C2: the Close frame of Client.Close().  The single frame Close() writes *)
(* to the stream has opcode Close, the mask bit set, a 4-byte key after    *)
(* the header, and a payload whose first two bytes, XOR-ed with the key,   *)
(* are the big-endian status 1000.                                         *)
(***************************************************************************)
\* the bytes the call in progress has handed to the stream
Sent == Drop(bw.out, Len(last.out0))

C2_CloseFrameMasked ==
  pc = "closing" =>
    /\ Len(Sent) = 8
    /\ Sent[1] % 16 = CodeClose
    /\ Sent[2] >= maskBit
    /\ Sent[2] % maskBit = 2
    /\ BitXor(Sent[7], Sent[3]) * 256 + BitXor(Sent[8], Sent[4]) = StatusNone

(***************************************************************************)
(* C3: Close() closes the stream.  In no execution has Close() returned    *)
(* with the underlying stream still open, whether the peer replied, kept   *)
(* silent until the deadline, had ended the stream, or the Close frame     *)
(* could not be written.                                                   *)
(***************************************************************************)
C3_CloseClosesStream == pc = "closed" => ~conn.open

(***************************************************************************)
(* C6: the handshake succeeds exactly on 101 with Upgrade: websocket.  The *)
(* handshake returns a nil error if and only if a response was read whose  *)
(* status is 101 and whose Upgrade header is "websocket" in any case of    *)
(* its letters; a Client exists only after a nil error.                    *)
(***************************************************************************)
\* "websocket" as the peer may spell it
WebsocketSpellings ==
  {<<119, 101, 98, 115, 111, 99, 107, 101, 116>>,
   <<87, 69, 66, 83, 79, 67, 75, 69, 84>>}

\* the response the handshake read was an acceptance
Accepted ==
  /\ last.res.kind = "response"
  /\ last.res.status = 101
  /\ last.res.upgrade \in WebsocketSpellings

C6_HandshakeSuccess ==
  /\ pc \in {"idle", "upgrading", "failed"} => ~cl
  /\ last.op = "client" =>
       /\ cl <=> last.err = "nil"
       /\ last.err = "nil" <=> Accepted
       /\ cl <=> pc = "open"

\* a 101 response with "WEBSOCKET" in capitals yielded a Client
C6_Witness ==
  /\ last.op = "client" /\ cl /\ pc = "open"
  /\ last.res.status = 101
  /\ last.res.upgrade = <<87, 69, 66, 83, 79, 67, 75, 69, 84>>

FrameBytes(f) ==
  Take(f.op, 2 + mustRead(f))
    \o (IF IsMasked(f) THEN f.mask ELSE <<>>)
    \o f.b

C10_WriteFlushes ==
  last.op \in {"Write", "WriteBinary", "WriteFrame"} /\ last.err = "nil" =>
    /\ bw.buf = <<>>
    /\ bw.out = last.out0 \o FrameBytes(last.fr)
    /\ last.n = Len(FrameBytes(last.fr))

\* a Write of a payload larger than the writer's buffer returned nil
C10_Witness ==
  /\ last.op = "Write" /\ last.err = "nil"
  /\ Len(last.fr.b) = 2 * bufSize + 1
  /\ IsMasked(last.fr)
  /\ Len(bw.out) = Len(last.out0) + 2 * bufSize + 1 + 8

(***************************************************************************)
(* C11: what Write and WriteBinary put on the stream.  When Write(b)       *)
(* (WriteBinary(b)) returns a nil error the stream has received exactly    *)
(* one frame: FIN set, opcode Text (Binary), the mask bit set, the length  *)
(* of b, a 4-byte key, and Len(b) bytes that XOR-ed with the key are b.    *)
(* With an error it has received a part of the frame's bytes.  Either way  *)
(* the frame the call acquired is back in the pool, reset.                 *)
(***************************************************************************)
\* the length field of a masked frame with n payload bytes, n < 65536
MaskedLenField(n) ==
  IF n > 125 THEN <<maskBit + 126, n \div 256, n % 256>> ELSE <<maskBit + n>>

\* the bytes of a masked frame before its payload: header and key
HeadLen(n) == 1 + Len(MaskedLenField(n)) + 4

\* the stream received one masked final frame of opcode code that carries b;
\* k is where the call's bytes start, h the length of header and key
IsFrameAt(code, b, k, h) ==
  /\ Len(bw.out) = k + h + Len(b)
  /\ bw.out[k + 1] = finBit + code
  /\ SubSeq(bw.out, k + 2, k + h - 4) = MaskedLenField(Len(b))
  /\ \A i \in 1..Len(b) :
       BitXor(bw.out[k + h + i], bw.out[k + h - 4 + ((i - 1) % 4) + 1]) = b[i]

IsFrameOf(code, b) == IsFrameAt(code, b, Len(last.out0), HeadLen(Len(b)))

C11_WriteOneMaskedFrame ==
  last.op \in {"Write", "WriteBinary"} =>
    /\ last.err = "nil" =>
          IsFrameOf(IF last.op = "Write" THEN CodeText ELSE CodeBinary, last.b)
    /\ last.err # "nil" =>
          Len(bw.out) - Len(last.out0) < HeadLen(Len(last.b)) + Len(last.b)
    /\ ReleaseFrame(last.fr) \in pool
    /\ \A f \in pool : IsReset(f)

\* Write of a 5-byte content returned nil: 11 bytes went out, the frame is
\* back in the pool
C11_Witness ==
  /\ last.op = "Write" /\ last.err = "nil"
  /\ Len(last.b) = MaxLen
  /\ last.fr.mask = <<18, 52, 86, 120>>
  /\ Len(bw.out) = Len(last.out0) + MaxLen + 6
  /\ pool # {}

(***************************************************************************)
(* C12: the length field matches the payload on the wire.  Whenever        *)
(* WriteTo returned a nil error, whatever was done to the frame before,    *)
(* the 7-bit marker it emitted agrees with the number of extended-length   *)
(* bytes it emitted (0, 2 or 8), and the length the header declares is the *)
(* number of payload bytes emitted.                                        *)
(***************************************************************************)
\* the latest operation of the holder
LastOp(op) == hist # <<>> /\ hist[Len(hist)].op = op

\* WriteTo emitted a header with s extended-length bytes before n payload
\* bytes
LengthAgrees(n, s) ==
  /\ wire[2] % maskBit < 126 => s = 0 /\ wire[2] % maskBit = n
  /\ wire[2] % maskBit = 126 => s = 2 /\ wire[3] * 256 + wire[4] = n
  /\ wire[2] % maskBit = 127 =>
       s = 8 /\ SubSeq(wire, 3, 10) = NatToU64(n)

C12_LengthMatchesPayload ==
  LastOp("WriteTo") /\ io.werr = "nil" =>
    LengthAgrees(Len(fr.b),
                 Len(wire) - Len(fr.b) - 2
                   - (IF wire[2] >= maskBit THEN 4 ELSE 0))

(***************************************************************************)
(* C13: an acquired frame is zeroed.  Whatever the earlier holders did,    *)
(* the frame AcquireFrame returns has its 10 header bytes 0, its 4 key     *)
(* bytes 0, no payload and its status-defined flag false.                  *)
(***************************************************************************)
\* AcquireFrame has returned and the holder has done nothing yet
Acquired == pc = "held" /\ hist = <<>> /\ inp.holders > 1

Zeroed(f) ==
  /\ f.op = <<0, 0, 0, 0, 0, 0, 0, 0, 0, 0>>
  /\ f.mask = <<0, 0, 0, 0>>
  /\ PayloadLen(f) = 0
  /\ ~f.statusDefined

C13_AcquiredZeroed == Acquired => Zeroed(fr) /\ Zeroed(rx)

\* a frame is acquired whose earlier holder had stored a payload: its bytes
\* are still in the backing array
C13_Witness ==
  /\ Acquired /\ Zeroed(fr)
  /\ fr.spare[1] = PayloadByte(1) /\ fr.spare[2] = PayloadByte(2)

(***************************************************************************)
(* C14: nothing leaks through the pool.  For a frame from AcquireFrame,    *)
(* Status(), Payload() and the bytes WriteTo emits are the same in two     *)
(* runs that differ only in the payload bytes an earlier holder stored in  *)
(* the instance.                                                           *)
(***************************************************************************)
C14_NoLeak ==
  pc = "held" /\ inp.holders > 1 =>
    /\ Payload(fr) = Payload(rx)
    /\ Status(fr) = Status(rx)
    /\ LastOp("WriteTo") => wire = inp.twire

(***************************************************************************)
(* C15: an acquired frame has the default max payload size.  Whatever the  *)
(* earlier holders did, SetPayloadSize included, PayloadSize() of the      *)
(* frame AcquireFrame returns is DefaultPayloadSize.                       *)
(***************************************************************************)
C15_AcquiredDefaultMax == Acquired => PayloadSize(fr) = DefaultPayloadSize

(***************************************************************************)
(* C16: a source that ends early is classified by the stage reached.       *)
(* ReadFrom returns the malformed-header error when the source ends before *)
(* the 2 header bytes or the extended-length bytes are complete, the       *)
(* mask-reading error when it ends before the 4 key bytes are complete,    *)
(* and a read error when it ends before the payload is complete; it never  *)
(* returns nil for a source that ended early.                              *)
(***************************************************************************)
\* the extended-length bytes the header s announces
ExtLen(s) ==
  IF s[2] % maskBit = 126 THEN 2 ELSE IF s[2] % maskBit = 127 THEN 8 ELSE 0

\* the key bytes the header s announces
KeyLen(s) == IF s[2] >= maskBit THEN 4 ELSE 0

\* the payload bytes the complete header s declares (lengths below 2^16)
Declared(s) ==
  IF ExtLen(s) = 0 THEN s[2] % maskBit
  ELSE s[1 + ExtLen(s)] * 256 + s[2 + ExtLen(s)]

\* the stage in which the source s ends
EndsIn(s) ==
  IF Len(s) < 2 THEN "header"
  ELSE IF Len(s) < 2 + ExtLen(s) THEN "header"
  ELSE IF Len(s) < 2 + ExtLen(s) + KeyLen(s) THEN "mask"
  ELSE IF Len(s) < 2 + ExtLen(s) + KeyLen(s) + Declared(s) THEN "payload"
  ELSE "none"

C16_EarlyEndByStage ==
  LastOp("ReadFrom") =>
    /\ EndsIn(inp.src) = "header" => io.rerr = "errReadingHeader"
    /\ EndsIn(inp.src) = "mask" => io.rerr = "errReadingMask"
    /\ EndsIn(inp.src) = "payload" => io.rerr \in {"EOF", "ErrUnexpectedEOF"}
    /\ EndsIn(inp.src) # "none" => io.rerr # "nil"

(***************************************************************************)
(* C17: Unmask() and UnsetMask() clear the mask bit.  After either call    *)
(* IsMasked() is false, whether the frame was masked before or not, and    *)
(* UnsetMask changes nothing but the mask bit.                             *)
(***************************************************************************)
C17_MaskBitCleared ==
  \A k \in 1..Len(hist) :
    /\ IsOp(k, "Unmask") \/ IsOp(k, "UnsetMask") => ~IsMasked(After(k))
    /\ IsOp(k, "UnsetMask") =>
         /\ After(k).op[1] = hist[k].before.op[1]
         /\ After(k).op[2] % maskBit = hist[k].before.op[2] % maskBit
         /\ After(k).mask = hist[k].before.mask
         /\ After(k).b = hist[k].before.b

(***************************************************************************)
(* C18: Mask() acts only on an unmasked frame.  Called on a frame whose    *)
(* mask bit is set it changes neither the stored key nor the payload, so   *)
(* that after Mask() twice one Unmask() yields the plaintext.              *)
(***************************************************************************)
C18_MaskOnlyUnmasked ==
  \A k \in 1..Len(hist) :
    /\ IsOp(k, "Mask") /\ IsMasked(hist[k].before) =>
         /\ After(k).mask = hist[k].before.mask
         /\ After(k).b = hist[k].before.b
    /\ (/\ IsOp(k, "Mask") /\ ~IsMasked(hist[k].before)
        /\ IsOp(k + 1, "Mask") /\ IsOp(k + 2, "Unmask")) =>
         After(k + 2).b = hist[k].before.b

(***************************************************************************)
(* C19: Mask() changes a non-empty payload.  As stated: for every          *)
(* non-empty plaintext and every key Mask() draws, the payload stored      *)
(* after Mask() differs from the plaintext in at least one byte.           *)
(***************************************************************************)
C19_MaskedDiffers ==
  \A k \in 1..Len(hist) :
    (IsOp(k, "Mask") /\ ~IsMasked(hist[k].before)
       /\ Len(hist[k].before.b) > 0) =>
      After(k).b # hist[k].before.b

(***************************************************************************)
(* C19, as the code has it: Mask() changes byte i of the payload exactly   *)
(* when byte i mod 4 of the key it drew is not 0.  The stored payload      *)
(* differs from the plaintext if and only if one of the key bytes applied  *)
(* to it is not 0; under the key 00 00 00 00 it is the plaintext.          *)
(***************************************************************************)
C19_MaskChangesWhereKeyNonzero ==
  \A k \in 1..Len(hist) :
    IsOp(k, "Mask") =>
      /\ Len(After(k).b) = Len(hist[k].before.b)
      /\ \A i \in 1..Len(hist[k].before.b) :
           (After(k).b[i] # hist[k].before.b[i])
             <=> (hist[k].arg[((i - 1) % 4) + 1] # 0)

\* Mask() drew the key FF 80 07 00 for a payload of MaxLen bytes: byte 4 is
\* stored as it was, byte 1 is not
C19_Witness ==
  /\ IsOp(2, "Mask") /\ hist[2].arg = <<255, 128, 7, 0>>
  /\ Len(hist[2].before.b) = MaxLen
  /\ After(2).b[4] = hist[2].before.b[4]
  /\ After(2).b[1] # hist[2].before.b[1]

\* C20: no stream byte is lost between the handshake and frame mode: when
\* the handshake returns without error, the first ReadFrame on the client
\* returns what the bytes the server had sent after its 101 response hold,
\* also when a frame was sent before the client read the response.
C20_FirstFrameRead ==
  [][(pc = "upgrading" /\ pc' = "open")
       => ReadFrame(rx, Inbound)' = ReadFrame(rx, Inbound)]_vars

(***************************************************************************)
(* C21: a frame held after a ReadFrom without error satisfies the Close    *)
(* payload invariant: when it is a Close frame with a payload, the payload *)
(* has at least 2 bytes and Payload() is defined on it; a Close frame that *)
(* declares 1 byte is not accepted.                                        *)
(***************************************************************************)
ReadOk == LastOp("ReadFrom") /\ io.rerr = "nil"

C21_ClosePayloadAtLeast2 ==
  (ReadOk /\ IsClose(fr) /\ Len(fr.b) # 0)
    => Len(fr.b) >= 2 /\ PayloadDefined(fr)

(***************************************************************************)
(* C22: on a Close frame SetStatus(s) changes only the status: Payload()   *)
(* returns the same bytes after the call as before it and Status()         *)
(* returns s, whether the payload is empty, was set by SetPayload or was   *)
(* filled by ReadFrom.                                                     *)
(***************************************************************************)
Before == hist[Len(hist)].before

C22_SetStatusKeepsPayload ==
  (LastOp("SetStatus") /\ IsClose(Before) /\ PayloadDefined(Before))
    => /\ Payload(fr) = Payload(Before)
       /\ Status(fr) = hist[Len(hist)].arg

(***************************************************************************)
(* C23: after a ReadFrom without error the stored payload is the payload   *)
(* of the frame just read: PayloadLen() equals Len() and the bytes are the *)
(* last Len() bytes of the frame on the wire, also when the frame held a   *)
(* payload before the read and the incoming frame declares length 0.       *)
(***************************************************************************)
WirePayload(s, n) == SubSeq(s, Len(s) - n + 1, Len(s))

C23_StoredPayloadIsRead ==
  ReadOk
    => /\ PayloadLen(fr) = U64ToNat(FrameLen(fr))
       /\ fr.b = WirePayload(hist[Len(hist)].arg, U64ToNat(FrameLen(fr)))

(***************************************************************************)
(* C24: CopyTo yields an equivalent frame: after fr.CopyTo(fr2) every      *)
(* sequence of frame operations applied to both gives the same Code,       *)
(* IsFin, IsMasked, Len, MaskKey, Status, Payload and bytes of WriteTo on  *)
(* fr2 as on fr; so a SetStatus(t) after fr.SetStatus(s); fr.CopyTo(fr2).  *)
(***************************************************************************)
Observed(f) ==
  [code |-> Code(f), fin |-> IsFin(f), masked |-> IsMasked(f),
   len |-> FrameLen(f), key |-> MaskKey(f), status |-> Status(f),
   payload |-> IF PayloadDefined(f) THEN Payload(f) ELSE <<-1>>,
   out |-> WriteTo(f, Sink(<<>>, -1)).w.out]

C24_CopyEquivalent == pc = "copied" => Observed(rx) = Observed(fr)

=============================================================================
